---- MODULE Spec2Model ----
(***************************************************************************)
(* Model of the two bounded control loops of compModelExplore:             *)
(*   - generate_code   (core/codegen.py): the generation-repair loop,      *)
(*   - ask             (core/agent_loop.py): the tool-calling agent loop,  *)
(* with the executors they call: _runtime_smoke_test (core/smoke_tests.py) *)
(* and PythonExecTool.run_python (core/tools.py).                          *)
(*                                                                         *)
(* Text is abstracted to the attributes the code branches on: a candidate  *)
(* program is a record of what ast.parse, the simulate() lookup and the    *)
(* runner process do with it; a model turn is a record of what json.loads  *)
(* and the key tests do with it.  The transcript of ask is kept as its      *)
(* length and its last two entries (history[0] is always the system        *)
(* prompt), which is all the code reads back from it.                      *)
(*                                                                         *)
(* ask sees run_python as one step (ToolReturn).  The last part of the     *)
(* module follows run_python line by line for calls made by sessions that  *)
(* share a process: the two directory snapshots, the plt.show override and *)
(* the DataFrame object passed by reference.                               *)
(***************************************************************************)
EXTENDS Integers, Sequences, FiniteSets, TLC

VARIABLES
    \* ---- generate_code ----
    gpc,            \* position in generate_code: "idle","llm","validate","smoke","persist","done"
    metadata,       \* the metadata record of the running call
    max_attempts,   \* argument of the running call
    attempt,        \* loop variable of `for attempt in range(1, max_attempts + 1)`
    messages,       \* the prompt transcript sent with every request
    cleaned,        \* sanitize_simulation_code(raw_code) of this attempt
    candStatus,     \* "unvalidated" / "structurally-valid" / "execution-verified"
    gresult,        \* what the call gave its caller
    nGenRequests,   \* openai.chat.completions.create calls of the running call
    nSmokeRuns,     \* _runtime_smoke_test calls of the running call
    genCalls,       \* generate_code calls started so far
    files,          \* models/<slug>/ : slug -> [metadata, simulate] or NoFile
    simulations,    \* table simulations : id -> row or NoRow
    \* ---- ask ----
    apc,            \* position in ask: "idle","turn","model","tool","hung","done"
    model_id,       \* argument of the running ask
    backend,        \* "openai" or "local"
    hasStopFlag,    \* a stop_flag callable was passed
    stop_requested, \* what stop_flag() returns now
    step,           \* loop variable of `for step in range(1, MAX_STEPS + 1)`
    historyLen,     \* len(history)
    historyHead,    \* history[0]
    historyTail,    \* history[-2:]
    all_images,     \* artifacts accumulated by the running ask
    aresult,        \* what the ask gave its caller
    nRequests,      \* model requests of the running ask
    nToolCalls,     \* model responses of the running ask that carry a function_call
    nToolRuns,      \* run_python calls started by the running ask
    nToolDone,      \* run_python calls of the running ask that returned
    onlyViolations, \* TRUE while every model turn of the running ask was a protocol violation
    cwd_png,        \* the *.png files of the working directory
    reasoning_agent,\* table reasoning_agent, rows in insertion order
    asks,           \* ask calls started so far
    nAnswered,      \* ask calls that returned an answer of the model
    tool_images,    \* the non-empty image lists run_python returned to the running ask, in call order
    \* ---- PythonExecTool.run_python, called from concurrent sessions ----
    epc,            \* caller -> position in run_python: "idle","override","exec","restore","after"
    ncalls,         \* caller -> run_python calls started
    before_png,     \* caller -> local `before`
    old_show,       \* caller -> local `old_show`
    ok,             \* caller -> local `ok`
    plt_show,       \* the attribute plt.show of the pyplot module
    plots_png,      \* the *.png files of the directory plots/
    df,             \* caller -> state of the DataFrame object its session loaded
    created,        \* caller -> the png files its running or last call created
    returned,       \* caller -> what its last ended call gave back
    reported,       \* png file -> number of run_python calls that returned it in images
    stdout_buf,     \* caller -> what its running or last call printed: the plot names
    saved           \* caller -> the working-directory names its code wrote to

gvars == <<gpc, metadata, max_attempts, attempt, messages, cleaned, candStatus,
           gresult, nGenRequests, nSmokeRuns, genCalls, files, simulations>>

avars == <<apc, model_id, backend, hasStopFlag, stop_requested, step, historyLen,
           historyHead, historyTail, all_images, aresult, nRequests,
           nToolCalls, nToolRuns, nToolDone, onlyViolations, cwd_png,
           reasoning_agent, asks, nAnswered, tool_images>>

\* the variables of ask other than the working directory
askvars == <<apc, model_id, backend, hasStopFlag, stop_requested, step, historyLen,
             historyHead, historyTail, all_images, aresult, nRequests,
             nToolCalls, nToolRuns, nToolDone, onlyViolations,
             reasoning_agent, asks, nAnswered, tool_images>>

xvars == <<epc, ncalls, before_png, old_show, ok, plt_show, plots_png, df, created,
           returned, reported, stdout_buf, saved>>

vars == <<gvars, avars, xvars>>

-----------------------------------------------------------------------------
\* Bounds of the model
MaxAttemptsArg == 4     \* max_attempts is drawn from 1..MaxAttemptsArg
MaxGenCalls == 2        \* generate_code calls in one behaviour
MaxAsks == 2            \* ask calls in one behaviour
MaxImages == 2          \* png files executed code creates in the working directory
MaxCalls == 2           \* run_python calls in one behaviour of SpecExec and SpecExecSeq
MaxPlots == 2           \* png files plt.show() creates in one behaviour

\* Program constants
DEFAULT_MAX_ATTEMPTS == 4
SMOKE_TIMEOUT == 30
MAX_STEPS == 40

-----------------------------------------------------------------------------
\* Candidate programs

\* What the runner process of _runtime_smoke_test does with a candidate that
\* is loaded: simulate() returns a JSON-serialisable value; an exception
\* reaches the runner (traceback, exit 1); the code calls sys.exit(0);
\* the process ends non-zero having written only blank lines; the process
\* ends non-zero having written nothing.
RunKinds == {"returns", "raises", "exit0", "exit_blank", "exit_silent"}

\* Wall-clock time of the runner process: well within / beyond the timeout.
Durations == {1, SMOKE_TIMEOUT + 1}

NoCandidate == [fenced |-> FALSE, indented |-> FALSE, syntaxOK |-> FALSE,
                hasSimulate |-> FALSE, run |-> "none", secs |-> 0, black |-> FALSE]

\* fenced  : the text is wrapped in markdown fences / a "here is the code" line
\* indented: every line of the text starts with the same white space
\* syntaxOK: the text parses once fences and common indentation are removed
\* black   : the text is already in the layout Black produces
Candidates ==
    { c \in [fenced : BOOLEAN, indented : BOOLEAN, syntaxOK : BOOLEAN,
             hasSimulate : BOOLEAN, run : RunKinds, secs : Durations,
             black : BOOLEAN] :
        /\ (~c.syntaxOK => ~c.hasSimulate /\ c.run = "raises" /\ c.secs = 1 /\ ~c.black)
        /\ (~c.hasSimulate => c.run \in {"raises", "exit0"} /\ c.secs = 1)
        /\ (c.fenced => ~c.black)
        /\ (c.indented => ~c.black) }

ModelNames == {"Simple Pendulum", "simple-pendulum", "Lotka Volterra"}
Metadatas == [model_name : ModelNames]
NoMetadata == [model_name |-> "none"]

slugify(name) ==
    CASE name = "Simple Pendulum" -> "simple-pendulum"
      [] name = "simple-pendulum" -> "simple-pendulum"
      [] name = "Lotka Volterra"  -> "lotka-volterra"
      [] OTHER                    -> "unnamed-model"

Slugs == {slugify(n) : n \in ModelNames}

NoFile == [metadata |-> NoMetadata, simulate |-> NoCandidate]
NoRow == [name |-> "none", metadata |-> NoMetadata, script_path |-> "none"]

\* textwrap.dedent: removes the white space every line starts with
textwrap_dedent(code) == [code EXCEPT !.indented = FALSE]

\* sanitize_simulation_code: drops the preamble line and the fences, dedents
sanitize_simulation_code(code) == textwrap_dedent([code EXCEPT !.fenced = FALSE])

\* ast.parse succeeds
Parses(code) == ~code.fenced /\ ~code.indented /\ code.syntaxOK

\* validate_simulation_code: a SyntaxError of ast.parse is caught and raised
\* again as ValueError; a module without a top-level simulate raises ValueError
validate_simulation_code(code) ==
    IF ~Parses(code)
    THEN [exc |-> "ValueError", msg |-> "Syntax error in simulation code"]
    ELSE IF ~code.hasSimulate
    THEN [exc |-> "ValueError", msg |-> "Missing required simulate() function"]
    ELSE [exc |-> "none", msg |-> "none"]

\* subprocess.run(..., timeout=timeout): the child is killed and
\* TimeoutExpired is raised when it has not ended after `timeout`
_runtime_smoke_test(py_code, timeout) ==
    IF py_code.secs > timeout
    THEN [exc |-> "TimeoutExpired", ok |-> FALSE, log |-> "none"]
    ELSE IF ~Parses(textwrap_dedent(py_code))
    THEN [exc |-> "none", ok |-> FALSE, log |-> "traceback"]
    ELSE CASE py_code.run = "returns"     -> [exc |-> "none", ok |-> TRUE,  log |-> "json"]
           [] py_code.run = "raises"      -> [exc |-> "none", ok |-> FALSE, log |-> "traceback"]
           [] py_code.run = "exit0"       -> [exc |-> "none", ok |-> TRUE,  log |-> "empty"]
           [] py_code.run = "exit_blank"  -> [exc |-> "none", ok |-> FALSE, log |-> "blank"]
           [] py_code.run = "exit_silent" -> [exc |-> "none", ok |-> FALSE, log |-> "empty"]

\* _beautify without check=True: the empty output of a failed Black is taken
_beautify_NoCheck(code, blackWorks) ==
    IF blackWorks THEN [code EXCEPT !.black = TRUE] ELSE NoCandidate

\* _beautify: Black's output, or the code unchanged when Black fails
_beautify(code, blackWorks) ==
    IF blackWorks THEN [code EXCEPT !.black = TRUE] ELSE code

-----------------------------------------------------------------------------
\* generate_code

SystemMessage == [role |-> "system", kind |-> "codegen_prompt", attempt |-> 0]
Feedback(kind, n) == [role |-> "user", kind |-> kind, attempt |-> n]

NoResult == [kind |-> "none", model_id |-> "none", attempts |-> 0]
Returned(id) == [kind |-> "returned", model_id |-> id, attempts |-> 0]
Raised(exc, n) == [kind |-> exc, model_id |-> "none", attempts |-> n]

GenInit ==
    /\ gpc = "idle"
    /\ metadata = NoMetadata
    /\ max_attempts = DEFAULT_MAX_ATTEMPTS
    /\ attempt = 0
    /\ messages = <<>>
    /\ cleaned = NoCandidate
    /\ candStatus = "unvalidated"
    /\ gresult = NoResult
    /\ nGenRequests = 0
    /\ nSmokeRuns = 0
    /\ genCalls = 0
    /\ files = [s \in Slugs |-> NoFile]
    /\ simulations = [s \in Slugs |-> NoRow]

\* generate_code(metadata, max_attempts) is called: lines 129-139
GenStart(md, ma) ==
    /\ gpc \in {"idle", "done"}
    /\ genCalls < MaxGenCalls
    /\ genCalls' = genCalls + 1
    /\ metadata' = md
    /\ max_attempts' = ma
    /\ attempt' = 1
    /\ messages' = <<SystemMessage>>
    /\ cleaned' = NoCandidate
    /\ candStatus' = "unvalidated"
    /\ gresult' = NoResult
    /\ nGenRequests' = 0
    /\ nSmokeRuns' = 0
    /\ gpc' = "llm"
    /\ UNCHANGED <<files, simulations, avars, xvars>>

\* LLMRespond with the request sent a second time
LLMRespond_Twice(raw) ==
    /\ gpc = "llm"
    /\ nGenRequests' = nGenRequests + 2
    /\ cleaned' = sanitize_simulation_code(raw)
    /\ candStatus' = "unvalidated"
    /\ gpc' = "validate"
    /\ UNCHANGED <<metadata, max_attempts, attempt, messages, gresult,
                   nSmokeRuns, genCalls, files, simulations, avars, xvars>>

\* one model request and its response: lines 141-147
LLMRespond(raw) ==
    /\ gpc = "llm"
    /\ nGenRequests' = nGenRequests + 1
    /\ cleaned' = sanitize_simulation_code(raw)
    /\ candStatus' = "unvalidated"
    /\ gpc' = "validate"
    /\ UNCHANGED <<metadata, max_attempts, attempt, messages, gresult,
                   nSmokeRuns, genCalls, files, simulations, avars, xvars>>

\* `continue` of the for loop, falling to the raise of line 202 after the
\* last attempt
NextAttempt_AppendsCandidate(msg) ==
    /\ messages' = messages \o <<[role |-> "assistant", kind |-> "candidate",
                                  attempt |-> attempt], msg>>
    /\ IF attempt < max_attempts
       THEN /\ attempt' = attempt + 1
            /\ gpc' = "llm"
            /\ gresult' = gresult
       ELSE /\ attempt' = attempt
            /\ gpc' = "done"
            /\ gresult' = Raised("RuntimeError", max_attempts)

NextAttempt(msg) ==
    /\ messages' = Append(messages, msg)
    /\ IF attempt < max_attempts
       THEN /\ attempt' = attempt + 1
            /\ gpc' = "llm"
            /\ gresult' = gresult
       ELSE /\ attempt' = attempt
            /\ gpc' = "done"
            /\ gresult' = Raised("RuntimeError", max_attempts)

\* StaticValidate with the result of the validation ignored: every candidate
\* goes on to the smoke test
StaticValidate_NoCheck ==
    /\ gpc = "validate"
    /\ candStatus' = "structurally-valid"
    /\ gpc' = "smoke"
    /\ UNCHANGED <<attempt, messages, gresult>>
    /\ UNCHANGED <<metadata, max_attempts, cleaned, nGenRequests, nSmokeRuns,
                   genCalls, files, simulations, avars, xvars>>

\* static validation: lines 150-169
StaticValidate ==
    /\ gpc = "validate"
    /\ LET v == validate_simulation_code(cleaned) IN
       IF v.exc = "ValueError"
       THEN /\ NextAttempt(Feedback("ValidationError", attempt))
            /\ UNCHANGED candStatus
       ELSE /\ candStatus' = "structurally-valid"
            /\ gpc' = "smoke"
            /\ UNCHANGED <<attempt, messages, gresult>>
    /\ UNCHANGED <<metadata, max_attempts, cleaned, nGenRequests, nSmokeRuns,
                   genCalls, files, simulations, avars, xvars>>

\* SmokeTest with `if not ok` dropped: whatever ran without an exception of
\* subprocess.run is persisted
SmokeTest_IgnoresOk ==
    /\ gpc = "smoke"
    /\ nSmokeRuns' = nSmokeRuns + 1
    /\ LET r == _runtime_smoke_test(cleaned, SMOKE_TIMEOUT) IN
       IF r.exc # "none"
       THEN /\ gresult' = Raised(r.exc, attempt)
            /\ gpc' = "done"
            /\ UNCHANGED <<attempt, messages, candStatus>>
       ELSE /\ candStatus' = "execution-verified"
            /\ gpc' = "persist"
            /\ UNCHANGED <<attempt, messages, gresult>>
    /\ UNCHANGED <<metadata, max_attempts, cleaned, nGenRequests, genCalls,
                   files, simulations, avars, xvars>>

\* runtime smoke test: lines 172-183
SmokeTest ==
    /\ gpc = "smoke"
    /\ nSmokeRuns' = nSmokeRuns + 1
    /\ LET r == _runtime_smoke_test(cleaned, SMOKE_TIMEOUT) IN
       IF r.exc # "none"
       THEN \* nothing in generate_code catches TimeoutExpired
            /\ gresult' = Raised(r.exc, attempt)
            /\ gpc' = "done"
            /\ UNCHANGED <<attempt, messages, candStatus>>
       ELSE IF ~r.ok
       THEN IF r.log = "blank"
            THEN \* log is not empty, log.strip().splitlines() is: [-1] raises
                 /\ gresult' = Raised("IndexError", attempt)
                 /\ gpc' = "done"
                 /\ UNCHANGED <<attempt, messages, candStatus>>
            ELSE /\ NextAttempt(Feedback("RuntimeError", attempt))
                 /\ UNCHANGED candStatus
       ELSE /\ candStatus' = "execution-verified"
            /\ gpc' = "persist"
            /\ UNCHANGED <<attempt, messages, gresult>>
    /\ UNCHANGED <<metadata, max_attempts, cleaned, nGenRequests, genCalls,
                   files, simulations, avars, xvars>>

\* store_simulation_script: INSERT OR REPLACE keyed by the slug
store_simulation_script_NoWhere(table, model_name, md, script_path) ==
    [s \in DOMAIN table |->
        [name |-> model_name, metadata |-> md, script_path |-> script_path]]

store_simulation_script(table, model_name, md, script_path) ==
    [table EXCEPT ![model_name] =
        [name |-> model_name, metadata |-> md, script_path |-> script_path]]

\* get_simulation_script_code: the file the row of model_id points to, dedented
get_simulation_script_code(table, dir, id) ==
    LET row == table[id] IN
    IF row = NoRow
    THEN [exc |-> "ValueError", code |-> NoCandidate]
    ELSE IF row.script_path \notin DOMAIN dir \/ dir[row.script_path] = NoFile
    THEN [exc |-> "FileNotFoundError", code |-> NoCandidate]
    ELSE [exc |-> "none", code |-> textwrap_dedent(dir[row.script_path].simulate)]

\* success: lines 186-199
Persist(blackWorks) ==
    /\ gpc = "persist"
    /\ LET model_slug == slugify(metadata.model_name) IN
       /\ files' = [files EXCEPT ![model_slug] =
                       [metadata |-> metadata,
                        simulate |-> _beautify(cleaned, blackWorks)]]
       /\ simulations' = store_simulation_script(simulations, model_slug,
                                                 metadata, model_slug)
       /\ gresult' = Returned(model_slug)
    /\ gpc' = "done"
    /\ UNCHANGED <<metadata, max_attempts, attempt, messages, cleaned,
                   candStatus, nGenRequests, nSmokeRuns, genCalls, avars, xvars>>

GenNext ==
    \/ \E md \in Metadatas, ma \in 1..MaxAttemptsArg : GenStart(md, ma)
    \/ \E raw \in Candidates : LLMRespond(raw)
    \/ StaticValidate
    \/ SmokeTest
    \/ \E b \in BOOLEAN : Persist(b)

-----------------------------------------------------------------------------
\* Model turns and tool code

\* assistant_msg["function_call"]["arguments"]: absent; a JSON object (or an
\* empty string, read as "{}"); text json.loads rejects; JSON that is no object
ArgKinds == {"none", "object", "invalid", "nonobject"}

\* assistant_msg["content"]: a JSON object with key "answer"; a JSON object,
\* list or string without "answer"; a JSON number, boolean or null; a JSON
\* list or string that contains "answer"; text json.loads rejects;
\* a JSON object whose "answer" is null, a list or an object (a value sqlite3
\* does not bind to the NOT NULL text column); text shaped like the JSON
\* action that json.loads rejects (a brace missing, two objects);
\* the object {"function_call": {"name": "python_exec", "arguments": ...}}
\* the system prompt asks for, as the reply of the local backend (with openai
\* the call arrives in msg.function_call; content of that shape is one more
\* JSON object without "answer")
ContentKinds == {"json_answer", "json_no_answer", "json_scalar",
                 "json_nonobj_answer", "plain",
                 "json_answer_unstorable", "json_malformed", "json_tool_call"}

\* what payload["answer"] / content.strip() is, by content kind
AnswerOf(content) ==
    CASE content = "json_answer"            -> "payload_answer"
      [] content = "json_answer_unstorable" -> "payload_null"
      [] OTHER                              -> "content_text"

\* sqlite3 binds the value to `answer TEXT NOT NULL`
Storable(answer) == answer # "payload_null"

\* What exec() of the code does when it ends: runs to its end; raises an
\* Exception; raises SystemExit.  saves: it writes a new png file into the
\* working directory first.
CodeKinds == {"ok", "raises", "exit"}
Codes == [run : CodeKinds, saves : BOOLEAN]

Responses ==
    { r \in [fc : ArgKinds, content : ContentKinds] :
        r.fc # "none" => r.content = "plain" }

\* a turn that is neither a tool call, nor a final-answer payload, nor
\* plain text (which is taken as the final answer)
ProtocolViolation(r) ==
    /\ r.fc = "none"
    /\ r.content \in {"json_no_answer", "json_scalar", "json_nonobj_answer",
                      "json_malformed"}

Msg(role, kind) == [role |-> role, kind |-> kind]
SystemPrompt == Msg("system", "system_prompt")
Question == Msg("user", "question")
Corrective == Msg("user", "corrective")
NoMsg == Msg("none", "none")

\* history.append(m), seen through len(history) and history[-2:]
Push(tail, m) == <<tail[2], m>>

RECURSIVE SortedSeq(_)
SortedSeq(S) ==
    IF S = {} THEN <<>>
    ELSE LET m == CHOOSE x \in S : \A y \in S : x <= y
         IN <<m>> \o SortedSeq(S \ {m})

FreshName(dir) == IF dir = {} THEN 1 ELSE (CHOOSE x \in dir : \A y \in dir : y <= x) + 1

\* PythonExecTool.run_python: exec() inside `except Exception`, images are
\* the png files the working directory gained during the call
run_python(code, dir) ==
    LET before == dir
        after == IF code.saves THEN dir \cup {FreshName(dir)} ELSE dir
    IN IF code.run = "exit"
       THEN [exc |-> "SystemExit", ok |-> FALSE, images |-> <<>>, dir |-> after]
       ELSE [exc |-> "none", ok |-> (code.run = "ok"),
             images |-> SortedSeq(after \ before), dir |-> after]

-----------------------------------------------------------------------------
\* ask

NoAnswer == [kind |-> "none", answer |-> "none", images |-> <<>>, exc |-> "none"]
Result(kind, answer, images) ==
    [kind |-> kind, answer |-> answer, images |-> images, exc |-> "none"]
AskRaised(exc) == [kind |-> "raised", answer |-> "none", images |-> <<>>, exc |-> exc]

AskInit ==
    /\ apc = "idle"
    /\ model_id = "none"
    /\ backend = "local"
    /\ hasStopFlag = FALSE
    /\ stop_requested = FALSE
    /\ step = 0
    /\ historyLen = 0
    /\ historyHead = NoMsg
    /\ historyTail = <<NoMsg, NoMsg>>
    /\ all_images = <<>>
    /\ aresult = NoAnswer
    /\ nRequests = 0
    /\ nToolCalls = 0
    /\ nToolRuns = 0
    /\ nToolDone = 0
    /\ onlyViolations = TRUE
    /\ cwd_png = {}
    /\ reasoning_agent = <<>>
    /\ asks = 0
    /\ nAnswered = 0
    /\ tool_images = <<>>

\* ask(model_id, question, backend, stop_flag) is called: lines 106-169
AskStart(id, b, sf, stop) ==
    /\ apc \in {"idle", "done"}
    /\ asks < MaxAsks
    /\ sf \/ ~stop
    /\ asks' = asks + 1
    /\ model_id' = id
    /\ backend' = b
    /\ hasStopFlag' = sf
    /\ stop_requested' = stop
    /\ step' = 1
    /\ historyLen' = 2
    /\ historyHead' = SystemPrompt
    /\ historyTail' = <<SystemPrompt, Question>>
    /\ all_images' = <<>>
    /\ aresult' = NoAnswer
    /\ nRequests' = 0
    /\ nToolCalls' = 0
    /\ nToolRuns' = 0
    /\ nToolDone' = 0
    /\ onlyViolations' = TRUE
    /\ tool_images' = <<>>
    /\ apc' = "turn"
    /\ UNCHANGED <<cwd_png, reasoning_agent, nAnswered, gvars, xvars>>

\* the caller's stop button: app.py line 255
RequestStop ==
    /\ apc \in {"turn", "model", "tool", "hung"}
    /\ hasStopFlag
    /\ ~stop_requested
    /\ stop_requested' = TRUE
    /\ UNCHANGED <<apc, model_id, historyHead, backend, hasStopFlag, step, historyLen,
                   historyTail, all_images, aresult, nRequests,
                   nToolCalls, nToolRuns, nToolDone, onlyViolations, cwd_png,
                   reasoning_agent, asks, nAnswered, tool_images, gvars,
                   xvars>>

\* the messages of the request in flight (apc = "model"):
\* [system_msg] + history[-2:] for openai, the whole history for local
MessagesForModel_OnlyRecent ==
    [first |-> historyTail[1], last2 |-> historyTail,
     len |-> IF backend = "openai" THEN 2 ELSE historyLen]

MessagesForModel_FullHistory ==
    [first |-> historyHead, last2 |-> historyTail, len |-> historyLen]

MessagesForModel ==
    [first |-> historyHead, last2 |-> historyTail,
     len |-> IF backend = "openai" THEN 3 ELSE historyLen]

\* TurnStart with the early stop tested after the model call
TurnStart_StopAfterRequest ==
    /\ apc = "turn"
    /\ nRequests' = nRequests + 1
    /\ IF hasStopFlag /\ stop_requested
       THEN /\ aresult' = Result("cancelled", "(stopped)", all_images)
            /\ apc' = "done"
       ELSE /\ apc' = "model"
            /\ UNCHANGED aresult
    /\ UNCHANGED <<model_id, historyHead, backend, hasStopFlag, stop_requested, step,
                   historyLen, historyTail, all_images, nToolCalls,
                   nToolRuns, nToolDone, onlyViolations, cwd_png,
                   reasoning_agent, asks, nAnswered, tool_images, gvars,
                   xvars>>

\* TurnStart without the early stop
TurnStart_NoPoll ==
    /\ apc = "turn"
    /\ nRequests' = nRequests + 1
    /\ apc' = "model"
    /\ UNCHANGED aresult
    /\ UNCHANGED <<model_id, historyHead, backend, hasStopFlag, stop_requested, step,
                   historyLen, historyTail, all_images, nToolCalls,
                   nToolRuns, nToolDone, onlyViolations, cwd_png,
                   reasoning_agent, asks, nAnswered, tool_images, gvars,
                   xvars>>

\* top of the loop body: the early stop, else the model request: lines 173-206
TurnStart ==
    /\ apc = "turn"
    /\ IF hasStopFlag /\ stop_requested
       THEN /\ aresult' = Result("cancelled", "(stopped)", all_images)
            /\ apc' = "done"
            /\ UNCHANGED nRequests
       ELSE /\ nRequests' = nRequests + 1
            /\ apc' = "model"
            /\ UNCHANGED aresult
    /\ UNCHANGED <<model_id, historyHead, backend, hasStopFlag, stop_requested, step,
                   historyLen, historyTail, all_images, nToolCalls,
                   nToolRuns, nToolDone, onlyViolations, cwd_png,
                   reasoning_agent, asks, nAnswered, tool_images, gvars,
                   xvars>>

\* Continue with the loop running one step too far
Continue_OffByOne(imgs) ==
    IF step < MAX_STEPS + 1
    THEN /\ step' = step + 1
         /\ apc' = "turn"
         /\ aresult' = aresult
    ELSE /\ step' = step
         /\ apc' = "done"
         /\ aresult' = Result("exhausted", "(no answer)", imgs)

\* the end of one loop body that did not return: the next step, or the
\* "no answer" return of lines 259-266 after the last one
Continue(imgs) ==
    IF step < MAX_STEPS
    THEN /\ step' = step + 1
         /\ apc' = "turn"
         /\ aresult' = aresult
    ELSE /\ step' = step
         /\ apc' = "done"
         /\ aresult' = Result("exhausted", "(no answer)", imgs)

\* _store_report with the INSERT executed twice
_store_report_Twice(table, id, question, answer, image_paths) ==
    IF ~Storable(answer) THEN table ELSE
    table \o << [model_id |-> id, question |-> question,
                 answer |-> answer, images |-> image_paths],
                [model_id |-> id, question |-> question,
                 answer |-> answer, images |-> image_paths] >>

\* _store_report with the INSERT left out
_store_report_Skipped(table, id, question, answer, image_paths) ==
    table

\* _store_report: CREATE TABLE IF NOT EXISTS, then one INSERT into
\* reasoning_agent, which sqlite3 rejects (IntegrityError, or an error of the
\* parameter binding) for an answer it cannot store: no row is added then
_store_report(table, id, question, answer, image_paths) ==
    IF ~Storable(answer) THEN table ELSE
    Append(table, [model_id |-> id, question |-> question,
                   answer |-> answer, images |-> image_paths])

\* the model's message arrives and is handled up to the start of the tool
\* run, a return, a raise or the end of the loop body: lines 192-256.
\* extract_code_map (imported from core.utils, not among the sources) is
\* taken to return normally and to change nothing; the answer of a payload is
\* taken to be a value the INSERT of _store_report accepts.
ModelRespond(r) ==
    /\ apc = "model"
    /\ backend = "local" => r.fc = "none"
    /\ r.content = "json_tool_call" => backend = "local"
    /\ onlyViolations' = (onlyViolations /\ ProtocolViolation(r))
    /\ IF r.fc # "none"
       THEN \* handle python_exec
            /\ historyLen' = historyLen + 1
            /\ historyTail' = Push(historyTail, Msg("assistant", "function_call"))
            /\ nToolCalls' = nToolCalls + 1
            /\ IF r.fc = "invalid"
               THEN /\ aresult' = AskRaised("JSONDecodeError")
                    /\ apc' = "done"
                    /\ UNCHANGED nToolRuns
               ELSE IF r.fc = "nonobject"
               THEN /\ aresult' = AskRaised("AttributeError")
                    /\ apc' = "done"
                    /\ UNCHANGED nToolRuns
               ELSE /\ nToolRuns' = nToolRuns + 1
                    /\ apc' = "tool"
                    /\ UNCHANGED aresult
            /\ UNCHANGED <<step, reasoning_agent, nAnswered>>
       ELSE \* check for final answer
            /\ UNCHANGED <<nToolCalls, nToolRuns>>
            /\ CASE r.content = "json_answer" ->
                    /\ historyLen' = historyLen + 1
                    /\ historyTail' = Push(historyTail, Msg("assistant", r.content))
                    /\ reasoning_agent' = _store_report(reasoning_agent, model_id,
                                              "question", "payload_answer", all_images)
                    /\ aresult' = Result("answer", "payload_answer", all_images)
                    /\ nAnswered' = nAnswered + 1
                    /\ apc' = "done"
                    /\ UNCHANGED step
                 [] r.content = "json_answer_unstorable" ->
                    \* the INSERT of _store_report raises
                    /\ historyLen' = historyLen + 1
                    /\ historyTail' = Push(historyTail, Msg("assistant", r.content))
                    /\ reasoning_agent' = _store_report(reasoning_agent, model_id,
                                              "question", AnswerOf(r.content), all_images)
                    /\ aresult' = AskRaised("IntegrityError")
                    /\ apc' = "done"
                    /\ UNCHANGED <<step, nAnswered>>
                 [] r.content \in {"plain", "json_malformed"} ->
                    /\ historyLen' = historyLen + 1
                    /\ historyTail' = Push(historyTail, Msg("assistant", r.content))
                    /\ reasoning_agent' = _store_report(reasoning_agent, model_id,
                                              "question", "content_text", all_images)
                    /\ aresult' = Result("plain_answer", "content_text", all_images)
                    /\ nAnswered' = nAnswered + 1
                    /\ apc' = "done"
                    /\ UNCHANGED step
                 [] r.content \in {"json_scalar", "json_nonobj_answer"} ->
                    \* `"answer" in payload` or payload["answer"] raises TypeError
                    /\ historyLen' = historyLen + 1
                    /\ historyTail' = Push(historyTail, Msg("assistant", r.content))
                    /\ aresult' = AskRaised("TypeError")
                    /\ apc' = "done"
                    /\ UNCHANGED <<step, reasoning_agent, nAnswered>>
                 [] r.content \in {"json_no_answer", "json_tool_call"} ->
                    \* enforce protocol
                    /\ historyLen' = historyLen + 2
                    /\ historyTail' = <<Msg("assistant", r.content), Corrective>>
                    /\ Continue(all_images)
                    /\ UNCHANGED <<reasoning_agent, nAnswered>>
    /\ UNCHANGED <<model_id, historyHead, backend, hasStopFlag, stop_requested,
                   all_images, nRequests, nToolDone, cwd_png, asks,
                   tool_images, gvars, xvars>>

\* ToolReturn with the function result left out of the transcript
ToolReturn_NoAppend(code) ==
    /\ apc = "tool"
    /\ code.saves => Cardinality(cwd_png) < MaxImages
    /\ LET tool_res == run_python(code, cwd_png) IN
       /\ cwd_png' = tool_res.dir
       /\ IF tool_res.exc # "none"
          THEN /\ aresult' = AskRaised(tool_res.exc)
               /\ apc' = "done"
               /\ UNCHANGED <<step, all_images, nToolDone, tool_images>>
          ELSE /\ all_images' = all_images \o tool_res.images
               /\ tool_images' = IF tool_res.images = <<>> THEN tool_images
                                 ELSE Append(tool_images, tool_res.images)
               /\ nToolDone' = nToolDone + 1
               /\ Continue(all_images \o tool_res.images)
    /\ UNCHANGED <<model_id, historyHead, backend, hasStopFlag, stop_requested, historyLen,
                   historyTail, nRequests, nToolCalls, nToolRuns, onlyViolations,
                   reasoning_agent, asks, nAnswered, gvars, xvars>>

\* ToolReturn with the new images put in front of the collected ones
ToolReturn_Prepends(code) ==
    /\ apc = "tool"
    /\ code.saves => Cardinality(cwd_png) < MaxImages
    /\ LET tool_res == run_python(code, cwd_png) IN
       /\ cwd_png' = tool_res.dir
       /\ IF tool_res.exc # "none"
          THEN /\ aresult' = AskRaised(tool_res.exc)
               /\ apc' = "done"
               /\ UNCHANGED <<step, historyLen, historyTail, all_images, nToolDone,
                              tool_images>>
          ELSE /\ all_images' = tool_res.images \o all_images
               /\ tool_images' = IF tool_res.images = <<>> THEN tool_images
                                 ELSE Append(tool_images, tool_res.images)
               /\ historyLen' = historyLen + 1
               /\ historyTail' = Push(historyTail,
                                      Msg("function", IF tool_res.ok THEN "ok" ELSE "fail"))
               /\ nToolDone' = nToolDone + 1
               /\ Continue(tool_res.images \o all_images)
    /\ UNCHANGED <<model_id, historyHead, backend, hasStopFlag, stop_requested,
                   nRequests, nToolCalls, nToolRuns, onlyViolations,
                   reasoning_agent, asks, nAnswered, gvars, xvars>>

\* tool.run_python(code, df) ends, the code having behaved as `code`:
\* lines 215-224
ToolReturn(code) ==
    /\ apc = "tool"
    /\ code.saves => Cardinality(cwd_png) < MaxImages
    /\ LET tool_res == run_python(code, cwd_png) IN
       /\ cwd_png' = tool_res.dir
       /\ IF tool_res.exc # "none"
          THEN \* SystemExit is no Exception: it leaves run_python and ask
               /\ aresult' = AskRaised(tool_res.exc)
               /\ apc' = "done"
               /\ UNCHANGED <<step, historyLen, historyTail, all_images, nToolDone,
                              tool_images>>
          ELSE /\ all_images' = all_images \o tool_res.images
               /\ tool_images' = IF tool_res.images = <<>> THEN tool_images
                                 ELSE Append(tool_images, tool_res.images)
               /\ historyLen' = historyLen + 1
               /\ historyTail' = Push(historyTail,
                                      Msg("function", IF tool_res.ok THEN "ok" ELSE "fail"))
               /\ nToolDone' = nToolDone + 1
               /\ Continue(all_images \o tool_res.images)
    /\ UNCHANGED <<model_id, historyHead, backend, hasStopFlag, stop_requested,
                   nRequests, nToolCalls, nToolRuns, onlyViolations,
                   reasoning_agent, asks, nAnswered, gvars, xvars>>

\* the executed code never ends: exec() has no timeout, run_python does
\* not return
ToolHang ==
    /\ apc = "tool"
    /\ apc' = "hung"
    /\ UNCHANGED <<model_id, historyHead, backend, hasStopFlag, stop_requested, step,
                   historyLen, historyTail, all_images, aresult, nRequests,
                   nToolCalls, nToolRuns, nToolDone, onlyViolations, cwd_png,
                   reasoning_agent, asks, nAnswered, tool_images, gvars,
                   xvars>>

\* the steps of a running ask and of its environment
AskStep ==
    \/ RequestStop
    \/ TurnStart
    \/ \E r \in Responses : ModelRespond(r)
    \/ \E code \in Codes : ToolReturn(code)
    \/ ToolHang

AskCall ==
    \E id \in Slugs, b \in {"openai", "local"}, sf \in BOOLEAN, stop \in BOOLEAN :
        AskStart(id, b, sf, stop)

\* one ask session
AskOnceNext ==
    \/ asks = 0 /\ AskCall
    \/ AskStep

\* the replies that differ in what a session leaves behind for the next one:
\* a row with the payload's answer, no row and an exception, a row with the
\* text, nothing and one more step, the files of a tool call
RunResponses ==
    { [fc |-> "none", content |-> c] :
        c \in {"json_answer", "json_answer_unstorable", "plain", "json_no_answer"} }
      \cup { [fc |-> "object", content |-> "plain"] }

\* successive ask sessions
AskNext ==
    \/ AskCall
    \/ RequestStop
    \/ TurnStart
    \/ \E r \in RunResponses : ModelRespond(r)
    \/ \E code \in Codes : ToolReturn(code)
    \/ ToolHang

-----------------------------------------------------------------------------
\* PythonExecTool.run_python line by line, called by sessions that run as
\* threads of one process: they share the working directory, the directory
\* plots/ and the module attribute plt.show.  Each session passes the
\* DataFrame object it loaded to every call it makes.

Callers == 1..2

\* names code gives to png files it writes into the working directory
CwdNames == 1..MaxImages

\* plots/plot_<uuid4>.png: uuid4 does not repeat
PlotNames == {100 + i : i \in 1..MaxPlots}

ShowFns == {"original", "_save_and_print"}

NoReturn == [kind |-> "none", ok |-> FALSE, stdout |-> <<>>, images |-> <<>>]

ExecInit ==
    /\ epc = [t \in Callers |-> "idle"]
    /\ ncalls = [t \in Callers |-> 0]
    /\ before_png = [t \in Callers |-> {}]
    /\ old_show = [t \in Callers |-> "original"]
    /\ ok = [t \in Callers |-> TRUE]
    /\ plt_show = "original"
    /\ plots_png = {}
    /\ df = [t \in Callers |-> "loaded"]
    /\ created = [t \in Callers |-> {}]
    /\ returned = [t \in Callers |-> NoReturn]
    /\ stdout_buf = [t \in Callers |-> <<>>]
    /\ saved = [t \in Callers |-> {}]
    /\ reported = [f \in CwdNames \cup PlotNames |-> 0]

\* run_python is entered and takes its first snapshot (before): line 49
Snapshot(t) ==
    /\ epc[t] = "idle"
    /\ ncalls[1] + ncalls[2] < MaxCalls
    /\ ncalls' = [ncalls EXCEPT ![t] = @ + 1]
    /\ before_png' = [before_png EXCEPT ![t] = cwd_png]
    /\ created' = [created EXCEPT ![t] = {}]
    /\ saved' = [saved EXCEPT ![t] = {}]
    /\ returned' = [returned EXCEPT ![t] = NoReturn]
    /\ epc' = [epc EXCEPT ![t] = "override"]
    /\ UNCHANGED <<old_show, ok, plt_show, plots_png, df, reported, cwd_png,
                   stdout_buf, askvars,
                   gvars>>

\* lines 52-65
OverrideShow(t) ==
    /\ epc[t] = "override"
    /\ old_show' = [old_show EXCEPT ![t] = plt_show]
    /\ plt_show' = "_save_and_print"
    /\ stdout_buf' = [stdout_buf EXCEPT ![t] = <<>>]
    /\ ok' = [ok EXCEPT ![t] = TRUE]
    /\ epc' = [epc EXCEPT ![t] = "exec"]
    /\ UNCHANGED <<ncalls, before_png, plots_png, df, created, returned, reported,
                   cwd_png, saved, askvars,
                   gvars>>

\* the executed code writes the png file f into the working directory
\* (an existing file of that name is overwritten, no file is created)
ExecSavefig(t, f) ==
    /\ epc[t] = "exec"
    /\ cwd_png' = cwd_png \cup {f}
    /\ created' = [created EXCEPT ![t] = IF f \in cwd_png THEN @ ELSE @ \cup {f}]
    /\ saved' = [saved EXCEPT ![t] = @ \cup {f}]
    /\ UNCHANGED <<epc, ncalls, before_png, old_show, ok, plt_show, plots_png, df,
                   returned, reported, stdout_buf, askvars,
                   gvars>>

\* the executed code calls plt.show() while it is _save_and_print: the figure
\* is saved as plots/plot_<uuid>.png (the directory plots/ exists): lines 54-59
ExecShow(t, u) ==
    /\ epc[t] = "exec"
    /\ plt_show = "_save_and_print"
    /\ u \notin plots_png
    /\ plots_png' = plots_png \cup {u}
    /\ created' = [created EXCEPT ![t] = @ \cup {u}]
    /\ stdout_buf' = [stdout_buf EXCEPT ![t] = Append(@, u)]
    /\ UNCHANGED <<epc, ncalls, before_png, old_show, ok, plt_show, df, returned,
                   reported, cwd_png, saved, askvars,
                   gvars>>

\* the executed code changes the DataFrame bound to df in place: line 67
\* puts the caller's object itself into the namespace
ExecMutateDf(t) ==
    /\ epc[t] = "exec"
    /\ df[t] = "loaded"
    /\ df' = [df EXCEPT ![t] = "mutated"]
    /\ UNCHANGED <<epc, ncalls, before_png, old_show, ok, plt_show, plots_png,
                   created, returned, reported, cwd_png, stdout_buf, saved, askvars,
                   gvars>>

\* exec() ends: the code ran to its end, raised an Exception (lines 71-73),
\* or raised SystemExit, which leaves run_python from line 70
ExecEnd(t, how) ==
    /\ epc[t] = "exec"
    /\ IF how = "exit"
       THEN /\ epc' = [epc EXCEPT ![t] = "idle"]
            /\ returned' = [returned EXCEPT ![t] =
                               [kind |-> "SystemExit", ok |-> FALSE,
                                stdout |-> <<>>, images |-> <<>>]]
            /\ UNCHANGED ok
       ELSE /\ epc' = [epc EXCEPT ![t] = "restore"]
            /\ ok' = [ok EXCEPT ![t] = (how = "ok")]
            /\ UNCHANGED returned
    /\ UNCHANGED <<ncalls, before_png, old_show, plt_show, plots_png, df, created,
                   reported, cwd_png, stdout_buf, saved, askvars,
                   gvars>>

\* line 76
RestoreShow(t) ==
    /\ epc[t] = "restore"
    /\ plt_show' = old_show[t]
    /\ epc' = [epc EXCEPT ![t] = "after"]
    /\ UNCHANGED <<ncalls, before_png, old_show, ok, plots_png, df, created,
                   returned, reported, cwd_png, stdout_buf, saved, askvars,
                   gvars>>

\* the second snapshot and the return: lines 79-88
ReturnImages(t) ==
    /\ epc[t] = "after"
    /\ LET after == cwd_png
           new_images == SortedSeq(after \ before_png[t])
       IN /\ returned' = [returned EXCEPT ![t] =
                             [kind |-> "returned", ok |-> ok[t],
                              stdout |-> stdout_buf[t], images |-> new_images]]
          /\ reported' = [f \in DOMAIN reported |->
                             IF f \in after \ before_png[t] THEN reported[f] + 1
                             ELSE reported[f]]
    /\ epc' = [epc EXCEPT ![t] = "idle"]
    /\ UNCHANGED <<ncalls, before_png, old_show, ok, plt_show, plots_png, df,
                   created, cwd_png, stdout_buf, saved, askvars,
                   gvars>>

\* the steps of a call that has started
ExecStep(t) ==
    \/ OverrideShow(t)
    \/ \E f \in CwdNames : ExecSavefig(t, f)
    \/ \E u \in PlotNames : ExecShow(t, u)
    \/ ExecMutateDf(t)
    \/ \E how \in CodeKinds : ExecEnd(t, how)
    \/ RestoreShow(t)
    \/ ReturnImages(t)

\* calls of different sessions overlap in time
ExecNext ==
    \E t \in Callers : Snapshot(t) \/ ExecStep(t)

\* one call at a time
ExecSeqNext ==
    \E t \in Callers :
        \/ (\A u \in Callers : epc[u] = "idle") /\ Snapshot(t)
        \/ ExecStep(t)

-----------------------------------------------------------------------------
\* Properties of generate_code (checked under SpecGen)

Verified(code) ==
    /\ validate_simulation_code(code).exc = "none"
    /\ _runtime_smoke_test(code, SMOKE_TIMEOUT).exc = "none"
    /\ _runtime_smoke_test(code, SMOKE_TIMEOUT).ok

\* C1: a candidate is persisted (simulate.py written, row stored) only after
\* that candidate passed validate_simulation_code and then a successful
\* _runtime_smoke_test: every stored simulate.py is a candidate that validates
\* and runs, a row exists only with its file, and a call reaches the persist
\* step or returns only with the candidate of that attempt execution-verified.
C1_PersistedOnlyAfterVerification ==
    /\ \A s \in Slugs : files[s] # NoFile => Verified(files[s].simulate)
    /\ \A s \in Slugs : simulations[s] # NoRow => files[s] # NoFile
    /\ (gpc = "persist" \/ gresult.kind = "returned") =>
          /\ candStatus = "execution-verified"
          /\ Verified(cleaned)
          /\ nSmokeRuns >= 1
    /\ gresult.kind = "returned" =>
          files[gresult.model_id].simulate \in
              {_beautify(cleaned, TRUE), _beautify(cleaned, FALSE)}

\* a call that persisted its candidate after earlier attempts had failed
C1_Witness ==
    /\ gresult.kind = "returned"
    /\ attempt = 3
    /\ files[gresult.model_id] # NoFile

\* C9: when all max_attempts candidates were produced and none was persisted,
\* generate_code raises the exhausted-attempts error, which carries the
\* attempt count, after exactly max_attempts model requests, and the first
\* call of a run has then persisted nothing.
C9_ExhaustedAfterMaxAttempts ==
    (gpc = "done" /\ gresult.kind # "returned" /\ attempt = max_attempts) =>
        /\ gresult = Raised("RuntimeError", max_attempts)
        /\ nGenRequests = max_attempts
        /\ (genCalls = 1 => /\ \A s \in Slugs : files[s] = NoFile
                            /\ \A s \in Slugs : simulations[s] = NoRow)

\* C10: every validation failure and every smoke-execution failure, a
\* timeout included, is recovered inside generate_code: the only failure
\* that reaches the caller is the exhausted-attempts error.
C10_OnlyExhaustedReachesCaller ==
    gresult.kind \in {"none", "returned", "RuntimeError"}

\* C11: in every attempt the static validation comes before any execution:
\* the smoke test is started only for the candidate of the current attempt
\* after validate_simulation_code returned for it, and a candidate that fails
\* validation (unparseable, or without a top-level simulate) ends its attempt
\* without an executor invocation.
C11_ValidationBeforeExecution ==
    [][ /\ (nSmokeRuns' # nSmokeRuns /\ genCalls' = genCalls) =>
              /\ nSmokeRuns' = nSmokeRuns + 1
              /\ gpc = "smoke"
              /\ candStatus = "structurally-valid"
              /\ validate_simulation_code(cleaned).exc = "none"
              /\ cleaned' = cleaned
        /\ gpc' = "smoke" =>
              /\ gpc \in {"validate", "smoke"}
              /\ validate_simulation_code(cleaned').exc = "none"
        /\ (gpc = "validate" /\ validate_simulation_code(cleaned).exc # "none") =>
              /\ nSmokeRuns' = nSmokeRuns
              /\ gpc' \in {"llm", "done"}
              /\ Len(messages') = Len(messages) + 1
        /\ nSmokeRuns' <= nGenRequests' ]_vars

\* two candidates failed validation, the second because it does not parse:
\* the third attempt starts and the executor has not been invoked
C11_Witness ==
    /\ gpc = "llm"
    /\ attempt = 3
    /\ nSmokeRuns = 0
    /\ Len(messages) = 3
    /\ ~Parses(cleaned)

\* C19: generate_code makes one model request per attempt (the request of
\* attempt n is the n-th of the call); a candidate that passes validation and
\* the smoke test is persisted and returned in the attempt that produced it,
\* a valid first candidate on attempt 1; files and the table are written only
\* in the step that returns the handle, and nothing follows the return.
C19_OneRequestPerAttemptFirstPassReturns ==
    [][ /\ (nGenRequests' # nGenRequests /\ genCalls' = genCalls) =>
              /\ gpc = "llm"
              /\ nGenRequests' = nGenRequests + 1
              /\ nGenRequests' = attempt
        /\ gpc' \in {"validate", "smoke", "persist"} => nGenRequests' = attempt'
        /\ gpc' = "llm" => nGenRequests' = attempt' - 1
        /\ (gpc \in {"validate", "smoke", "persist"} /\ Verified(cleaned)) =>
              /\ attempt' = attempt
              /\ nGenRequests' = nGenRequests
              /\ cleaned' = cleaned
              /\ gpc' = CASE gpc = "validate" -> "smoke"
                           [] gpc = "smoke"    -> "persist"
                           [] gpc = "persist"  -> "done"
              /\ gpc = "persist" =>
                    /\ gresult' = Returned(slugify(metadata.model_name))
                    /\ files'[slugify(metadata.model_name)] # NoFile
                    /\ simulations'[slugify(metadata.model_name)] # NoRow
        /\ (files' # files \/ simulations' # simulations) =>
              /\ gpc = "persist"
              /\ gpc' = "done"
              /\ gresult.kind = "none"
              /\ gresult'.kind = "returned"
        /\ gresult'.kind = "returned" =>
              /\ Verified(cleaned')
              /\ nGenRequests' = attempt'
        /\ (gresult.kind = "returned" /\ genCalls' = genCalls) =>
              UNCHANGED gvars ]_vars

\* a valid first candidate: persisted and returned on attempt 1 after one
\* model request
C19_Witness ==
    /\ gresult.kind = "returned"
    /\ genCalls = 1
    /\ attempt = 1
    /\ nGenRequests = 1
    /\ files[gresult.model_id].simulate \in
           {_beautify(cleaned, TRUE), _beautify(cleaned, FALSE)}

\* C20 as stated: the source text retrieved by the handle generate_code
\* returned is byte-identical to the candidate that passed validation and
\* the smoke test.
C20_RoundTripByteIdentical ==
    gresult.kind = "returned" =>
        LET got == get_simulation_script_code(simulations, files, gresult.model_id)
        IN /\ got.exc = "none"
           /\ got.code = cleaned

\* C20 amended: the source text retrieved by the handle is the verified
\* candidate as _beautify wrote it: the candidate in Black's layout, or the
\* candidate itself when Black failed; it is byte-identical to the candidate
\* when the candidate is already in Black's layout, and it validates and runs
\* like the candidate.
C20_RoundTripUpToBlack ==
    gresult.kind = "returned" =>
        LET got == get_simulation_script_code(simulations, files, gresult.model_id)
        IN /\ got.exc = "none"
           /\ got.code \in {cleaned, [cleaned EXCEPT !.black = TRUE]}
           /\ (cleaned.black => got.code = cleaned)
           /\ Verified(got.code)

\* a returned handle whose stored text is the candidate reformatted by Black
C20_Witness ==
    /\ gresult.kind = "returned"
    /\ ~cleaned.black
    /\ get_simulation_script_code(simulations, files, gresult.model_id).code
           = [cleaned EXCEPT !.black = TRUE]

\* C21: a verified candidate is immutable: once generate_code has persisted
\* a candidate and returned its handle, no later step of any generate_code
\* call changes the file or the row retrievable under that handle.
C21_VerifiedCandidateImmutable ==
    [][\A s \in Slugs :
          files[s] # NoFile =>
              /\ files'[s] = files[s]
              /\ simulations'[s] = simulations[s]]_vars

\* C21 amended: what is stored under a returned handle changes only when a
\* later generate_code call whose model name slugifies to that handle
\* persists its own verified candidate: it then replaces the source text and
\* the metadata by its own; calls for other slugs, and calls that fail, leave
\* them as they are.
C21_ReplacedOnlyBySameSlug ==
    [][\A s \in Slugs :
          files[s] # NoFile =>
              \/ /\ files'[s] = files[s]
                 /\ simulations'[s] = simulations[s]
              \/ /\ gpc = "persist"
                 /\ s = slugify(metadata.model_name)
                 /\ Verified(cleaned)
                 /\ files'[s].metadata = metadata
                 /\ files'[s].simulate \in {cleaned, [cleaned EXCEPT !.black = TRUE]}
                 /\ simulations'[s] = [name |-> s, metadata |-> metadata,
                                       script_path |-> s]]_vars

\* a second call has persisted under another slug, and the handle of the first
\* call still retrieves what the first call stored
C21_Witness ==
    /\ genCalls = 2
    /\ gresult = Returned("lotka-volterra")
    /\ files["simple-pendulum"] # NoFile
    /\ simulations["simple-pendulum"].metadata.model_name = "Simple Pendulum"
    /\ simulations["lotka-volterra"].metadata = metadata

\* C24: when the candidate of attempt k (k < max_attempts) fails to parse,
\* the message appended for attempt k+1 is the syntax-error feedback: the
\* failing line within two lines of context, annotated, and the diagnostic.
C24_SyntaxFeedbackHasContext ==
    [][(gpc = "validate" /\ ~Parses(cleaned) /\ attempt < max_attempts) =>
          /\ Len(messages') = Len(messages) + 1
          /\ messages'[Len(messages')] = Feedback("SyntaxError", attempt)]_vars

\* C29: the transcript of a generate_code call begins with the one system
\* message; every later message is a user feedback message tagged with the
\* number of the attempt that failed, in order; no candidate is in it; the
\* request of attempt k is made with exactly k messages; within a call the
\* transcript only grows at its end.
C29_TranscriptShape ==
    /\ [](gpc # "idle" =>
            /\ messages[1] = SystemMessage
            /\ \A i \in 2..Len(messages) :
                  /\ messages[i].role = "user"
                  /\ messages[i].attempt = i - 1
                  /\ messages[i].kind \in {"SyntaxError", "ValidationError",
                                           "RuntimeError"}
            /\ gpc \in {"llm", "validate", "smoke", "persist"} =>
                  Len(messages) = attempt
            /\ gresult.kind = "returned" => Len(messages) = attempt
            /\ gresult.kind = "RuntimeError" => Len(messages) = max_attempts + 1)
    /\ [][genCalls' = genCalls =>
            /\ Len(messages') \in {Len(messages), Len(messages) + 1}
            /\ SubSeq(messages', 1, Len(messages)) = messages]_vars

\* the request of the third attempt: the system message and the feedback of
\* attempts 1 and 2
C29_Witness ==
    /\ gpc = "llm"
    /\ attempt = 3
    /\ Len(messages) = 3
    /\ messages[3].attempt = 2

-----------------------------------------------------------------------------
\* Properties of ask (checked under SpecAsk; C6 under SpecAskRuns, C14 under
\* SpecAskFair)

\* C2: the step counter only increases, by one per model response, and never
\* exceeds MAX_STEPS; one ask makes at most MAX_STEPS model requests and at
\* most MAX_STEPS tool executions.
C2_StepBudget ==
    [][ /\ step' <= MAX_STEPS
        /\ nRequests' <= MAX_STEPS
        /\ nToolRuns' <= MAX_STEPS
        /\ (asks' = asks => step' \in {step, step + 1})
        /\ (asks' = asks => nRequests' \in {nRequests, nRequests + 1})
        /\ (apc' = "turn" => nRequests' = step' - 1)
        /\ (apc' \in {"model", "tool", "hung"} => nRequests' = step')
        /\ nToolRuns' <= nRequests' ]_vars

\* the last step of the budget, every step having executed the tool
C2_Witness ==
    /\ step = MAX_STEPS
    /\ nToolRuns = MAX_STEPS
    /\ apc = "tool"

\* C3: a model that only ever emits protocol-violating turns makes ask end in
\* the budget-exhausted outcome after exactly MAX_STEPS model requests, with
\* the "(no answer)" sentinel and the accumulated artifacts, without any tool
\* execution and without raising.
C3_ViolationsExhaustBudget ==
    (apc = "done" /\ onlyViolations /\ aresult.kind # "cancelled") =>
        /\ aresult = Result("exhausted", "(no answer)", all_images)
        /\ nRequests = MAX_STEPS
        /\ nToolRuns = 0

\* C4: when the stop flag is seen true at the start of a turn, ask returns
\* "(stopped)" with the artifacts accumulated so far and makes no further model
\* request or tool execution, none at all when that happens at the first turn.
C4_CancelledAtTurnStart ==
    [][ /\ (apc = "turn" /\ hasStopFlag /\ stop_requested) =>
              /\ apc' = "done"
              /\ aresult' = Result("cancelled", "(stopped)", all_images)
              /\ nRequests' = nRequests
              /\ nToolRuns' = nToolRuns
        /\ (aresult.kind = "cancelled" /\ asks' = asks) =>
              /\ aresult' = aresult
              /\ nRequests' = nRequests
              /\ nToolRuns' = nToolRuns
        /\ aresult'.kind = "cancelled" =>
              /\ nRequests' = step' - 1
              /\ nToolRuns' = nToolDone'
              /\ (step' = 1 => nRequests' = 0 /\ nToolRuns' = 0) ]_vars

\* an ask cancelled after a tool execution that left an artifact
C4_Witness ==
    /\ aresult.kind = "cancelled"
    /\ step > 1
    /\ aresult.images # <<>>

C7_ExecutorNeverRaises ==
    /\ aresult.exc # "SystemExit"
    /\ gresult.kind # "TimeoutExpired"

\* C14: a code payload that never terminates by itself is killed when the
\* timeout expires and run_python returns (ok = false, Timeout diagnostic):
\* the agent loop gets control back, at the next turn or with a result.
C14_CallerGetsControlBack ==
    (apc = "hung") ~> (apc \in {"turn", "done"})

\* C15 as stated: a cancellation request prevents the next model call or tool
\* execution from starting: when the stop flag became true while a model call
\* is in flight, the tool call of that response is not executed; when it
\* became true while a tool execution is in flight, no further model request
\* is issued.
C15_CancellationPreventsNextStart ==
    [][ /\ (hasStopFlag /\ stop_requested /\ apc = "model") =>
              nToolRuns' = nToolRuns
        /\ (hasStopFlag /\ stop_requested /\ apc \in {"tool", "hung", "turn"}
               /\ asks' = asks) =>
              nRequests' = nRequests ]_vars

\* C15 amended: the stop flag is polled only at the start of a turn.  Once it
\* is true no further model request is issued and the next turn start returns
\* the cancelled result; a tool execution starts after that only as the tool
\* call of the model response that was in flight, at most once.
C15_CancellationPolledAtTurnStart ==
    [][ (hasStopFlag /\ stop_requested /\ asks' = asks) =>
            /\ nRequests' = nRequests
            /\ (apc = "turn" => /\ apc' = "done"
                                /\ aresult'.kind = "cancelled"
                                /\ nToolRuns' = nToolRuns)
            /\ (nToolRuns' # nToolRuns => /\ apc = "model"
                                          /\ apc' = "tool"
                                          /\ nToolRuns' = nToolRuns + 1)
            /\ (apc \in {"tool", "hung"} => nToolRuns' = nToolRuns) ]_vars

\* the stop flag became true while the model call of the second turn is in
\* flight, a tool execution having ended before
C15_Witness ==
    /\ hasStopFlag
    /\ stop_requested
    /\ apc = "model"
    /\ step = 2
    /\ nToolDone = 1

\* C16: a model turn without tool call whose content is not JSON ends the ask
\* with that text as the answer: the turn is appended to the transcript, one
\* report (model id, question, the text, the accumulated artifacts) is stored,
\* the text is returned with the accumulated artifacts, no corrective
\* instruction is appended, ask does not raise, and no model request follows.
C16_PlainTextIsFinalAnswer ==
    [][ /\ \A k \in {"plain", "json_malformed"} :
            (historyTail' # historyTail /\ historyTail'[2] = Msg("assistant", k)) =>
              /\ apc = "model"
              /\ apc' = "done"
              /\ aresult' = Result("plain_answer", "content_text", all_images)
              /\ all_images' = all_images
              /\ reasoning_agent' =
                     Append(reasoning_agent,
                            [model_id |-> model_id, question |-> "question",
                             answer |-> "content_text", images |-> all_images])
              /\ historyLen' = historyLen + 1
              /\ historyTail'[1] = historyTail[2]
              /\ nRequests' = nRequests
              /\ step' = step
        /\ (aresult'.kind = "plain_answer" /\ aresult.kind # "plain_answer") =>
              historyTail'[2] \in {Msg("assistant", "plain"),
                                   Msg("assistant", "json_malformed")}
        /\ (aresult.kind = "plain_answer" /\ asks' = asks) =>
              /\ nRequests' = nRequests
              /\ reasoning_agent' = reasoning_agent
              /\ aresult' = aresult ]_vars

\* a plain-text turn at step 2, after a tool execution that left an artifact
C16_Witness ==
    /\ aresult.kind = "plain_answer"
    /\ step = 2
    /\ aresult.images # <<>>
    /\ Len(reasoning_agent) = 1
    /\ historyTail = <<Msg("function", "ok"), Msg("assistant", "plain")>>

RECURSIVE Concat(_)
Concat(lists) ==
    IF lists = <<>> THEN <<>> ELSE Head(lists) \o Concat(Tail(lists))

\* C17: the artifact list ask returns, whether it ends with a model answer, a
\* plain-text answer, cancelled or budget-exhausted, is the concatenation, in
\* call order, of the image lists its run_python calls returned; the list
\* collected so far is that concatenation at every point of the session.
C17_ImagesAreConcatenationOfToolImages ==
    /\ all_images = Concat(tool_images)
    /\ aresult.kind \in {"answer", "plain_answer", "cancelled", "exhausted"} =>
          aresult.images = Concat(tool_images)

\* a cancelled ask after two tool executions that each left one artifact and
\* one in between that left none
C17_Witness ==
    /\ aresult.kind = "cancelled"
    /\ nToolDone = 3
    /\ tool_images = << <<1>>, <<2>> >>
    /\ aresult.images = <<1, 2>>

\* C8: ask never propagates an exception to its caller once the conversation
\* has started.
C8_AskNeverRaises ==
    aresult.kind # "raised"

\* the step in which the model's reply with content kind k is handled
Replied(k) ==
    /\ apc = "model"
    /\ apc' # "model"
    /\ \/ historyTail'[2] = Msg("assistant", k)
       \/ historyTail'[1] = Msg("assistant", k) /\ historyTail'[2] = Corrective

\* C23: the report store is append-only: every _store_report call (one per
\* reply taken as an answer) inserts exactly one new row after the rows
\* already stored, and no step changes or removes a stored row.
C23_ReportStoreAppendOnly ==
    [][/\ reasoning_agent' # reasoning_agent =>
             /\ Len(reasoning_agent') = Len(reasoning_agent) + 1
             /\ SubSeq(reasoning_agent', 1, Len(reasoning_agent)) = reasoning_agent
       /\ \A k \in {"json_answer", "json_answer_unstorable", "plain", "json_malformed"} :
             Replied(k) => Len(reasoning_agent') = Len(reasoning_agent) + 1]_vars

\* C25: a reply that is a malformed structured payload (text shaped like the
\* JSON action that does not parse, or JSON that is neither a tool call nor
\* an answer) gets the corrective instruction appended after it, consumes one
\* step, and the loop goes on (or ends as exhausted after the last step).
C25_MalformedPayloadGetsCorrective ==
    [][\A k \in {"json_malformed", "json_no_answer", "json_scalar",
                  "json_nonobj_answer"} :
          Replied(k) =>
              /\ historyTail' = <<Msg("assistant", k), Corrective>>
              /\ historyLen' = historyLen + 2
              /\ reasoning_agent' = reasoning_agent
              /\ IF step < MAX_STEPS
                 THEN step' = step + 1 /\ apc' = "turn" /\ aresult' = aresult
                 ELSE aresult'.kind = "exhausted"]_vars

\* C26: every request ask sends, at every step and with both backends,
\* has the system context as its first message and the last two entries of
\* the transcript as its last two; the first entry of the transcript stays
\* the system context.
C26_RequestKeepsSystemContext ==
    apc = "model" =>
        /\ historyHead = SystemPrompt
        /\ MessagesForModel.first = SystemPrompt
        /\ MessagesForModel.last2 = historyTail
        /\ backend = "openai" => MessagesForModel.len = 3
        /\ backend = "local" => MessagesForModel.len = historyLen
        /\ historyLen >= 2
        /\ historyLen = 2 => historyTail = <<SystemPrompt, Question>>

\* a request of a later step with the bounded transcript of the openai
\* backend, and of the local backend
C26_Witness ==
    /\ apc = "model"
    /\ backend = "openai"
    /\ step = 3
    /\ historyLen = 6
    /\ historyTail[2].role = "function"

\* C27: with the local backend, a reply whose content is the tool-call
\* object the system prompt asks for starts an execution of its code (the
\* result is appended before the next request, C5).
C27_LocalToolCallIsExecuted ==
    [][(backend = "local" /\ Replied("json_tool_call")) =>
          /\ apc' = "tool"
          /\ nToolRuns' = nToolRuns + 1
          /\ historyTail'[2] # Corrective]_vars

\* C30: with the openai backend the request of step 1 is the system message,
\* the system message and the question; every later request is the system
\* message and the last two entries of the transcript, three messages, none
\* of them the question.
C30_OpenAIRequestWindow ==
    (apc = "model" /\ backend = "openai") =>
        LET m == MessagesForModel IN
        /\ m.len = 3
        /\ m.first = SystemPrompt
        /\ step = 1 => m.last2 = <<SystemPrompt, Question>>
        /\ step > 1 =>
              /\ m.last2 = historyTail
              /\ historyLen >= 4
              /\ Question \notin {m.first, m.last2[1], m.last2[2]}
              /\ m.last2[2] \in {Corrective, Msg("function", "ok"),
                                  Msg("function", "fail")}

\* the request of step 2 after a corrective instruction: the question has
\* left the window
C30_Witness ==
    /\ apc = "model"
    /\ backend = "openai"
    /\ step = 2
    /\ MessagesForModel.last2 = <<Msg("assistant", "json_no_answer"), Corrective>>

\* C22: two run_python calls that execute the same code on the same,
\* unchanged data (the same files written, as many plt.show() calls, the same
\* ending) return the same ok and the same stdout, and no image in common.
C22_IdenticalCallsAgree ==
    \A a \in Callers : \A b \in Callers \ {a} :
        ( /\ returned[a].kind = "returned"
          /\ returned[b].kind = "returned"
          /\ saved[a] = saved[b]
          /\ Len(stdout_buf[a]) = Len(stdout_buf[b])
          /\ ok[a] = ok[b]
          /\ df[a] = "loaded"
          /\ df[b] = "loaded" ) =>
            /\ returned[a].ok = returned[b].ok
            /\ returned[a].stdout = returned[b].stdout
            /\ {returned[a].images[i] : i \in DOMAIN returned[a].images}
                  \cap {returned[b].images[i] : i \in DOMAIN returned[b].images} = {}

\* C28: once every run_python call has returned, plt.show is the function
\* it was before the calls, whether the calls overlapped or not and however
\* the executed code ended, a caught exception included.
C28_ShowRestored ==
    (\A t \in Callers :
        /\ epc[t] = "idle"
        /\ ncalls[t] <= 1
        /\ returned[t].kind \in {"none", "returned"}) =>
            plt_show = "original"

-----------------------------------------------------------------------------
\* Properties of run_python (checked under SpecExec and SpecExecSeq)

\* C12: no png file is returned by two different run_python calls, whether
\* the calls follow each other or overlap in time: the image lists of
\* distinct calls are pairwise disjoint.
C12_ImagesPairwiseDisjoint ==
    \A f \in DOMAIN reported : reported[f] <= 1

\* C13: the images list a run_python call returns holds exactly the png
\* files that call created, the figures its plt.show() override saved as
\* plots/plot_<uuid>.png included.
C13_ImagesAreTheCreatedArtifacts ==
    \A t \in Callers :
        returned[t].kind = "returned" =>
            {returned[t].images[i] : i \in DOMAIN returned[t].images} = created[t]

\* C18: the dataset is a read-only input of executed code: every invocation
\* after the first of a session starts with the DataFrame as the session
\* loaded it.
C18_DatasetReadOnly ==
    \A t \in Callers :
        (ncalls[t] >= 2 /\ epc[t] = "override") => df[t] = "loaded"

Init == GenInit /\ AskInit /\ ExecInit

SpecGen == Init /\ [][GenNext]_vars

SpecAsk == Init /\ [][AskOnceNext]_vars

\* one ask session in which the loop, the model and ending tool code take
\* their steps
SpecAskFair == Init /\ [][AskOnceNext]_vars /\ WF_vars(AskStep)

SpecAskRuns == Init /\ [][AskNext]_vars

SpecExec == Init /\ [][ExecNext]_vars

SpecExecSeq == Init /\ [][ExecSeqNext]_vars

====
